---- MODULE Spec2Model ----
(***************************************************************************)
(* A model of sudoku/sudoku.py: the 9x9 board (_Cell, _Region, Board), the *)
(* file loader Board.parse, the propagation step Board.update and the      *)
(* Board.undo stub.                                                        *)
(*                                                                         *)
(* The class statement of _Cell lists "candidates" and "value" in          *)
(* __slots__ next to the properties of the same names, which CPython       *)
(* rejects when the module is imported.  The model describes the methods   *)
(* as they are written, i.e. the module with that __slots__ line dropped.  *)
(*                                                                         *)
(* A cell is numbered (r-1)*9 + k for the k-th cell of region r, the way   *)
(* Board.__init__ creates them; rows and columns are the tables that       *)
(* Board.__init__ spells out over those cells.                             *)
(***************************************************************************)
EXTENDS Integers, Sequences, FiniteSets

VARIABLES
    value,    \* _Cell.__value of each of the 81 cells (0: unresolved)
    cand,     \* _Cell.__candidates of each cell, as the set of digits set True
    raised,   \* the exception the last call ended with ("none": it returned)
    op,       \* the last call made on the board
    grid,     \* history: the file contents handed to parse
    log,      \* history: the boards seen at the start of the update() calls not yet undone
    fixed,    \* history: some update() call has left every cell unchanged
    hits,     \* history: the hidden-single resolutions of the last call
    asg       \* history: the last direct assignment, with the cell's state before it

vars == <<value, cand, raised, op, grid, log, fixed, hits, asg>>

----------------------------------------------------------------------------
(* Bounds of the model.                                                    *)

\* clue digits of the enumerated files are drawn from 0..MaxDigit
MaxDigit == 3
\* update() calls that may be pending (not undone) at a time
MaxLog == 3
\* directly assigned values are drawn from (1 - Margin)..(9 + Margin)
Margin == 2

----------------------------------------------------------------------------
(* Layout: Board.__init__                                                  *)

N == 9
Digits == 1..N
Cells == 1..(N * N)
NoneRef == 0
IndexErr == -1

CellAt(r, k) == (r - 1) * N + k

\* _Region.cells: self.__cells[1:], the nine cells of a region
RegionCells(r) == [k \in 1..N |-> CellAt(r, k)]

Regions == [r \in 1..N |-> RegionCells(r)]

\* self.__rows: row i, left to right
Rows ==
    << << CellAt(1,1), CellAt(1,2), CellAt(1,3), CellAt(2,1), CellAt(2,2), CellAt(2,3), CellAt(3,1), CellAt(3,2), CellAt(3,3) >>,
       << CellAt(1,4), CellAt(1,5), CellAt(1,6), CellAt(2,4), CellAt(2,5), CellAt(2,6), CellAt(3,4), CellAt(3,5), CellAt(3,6) >>,
       << CellAt(1,7), CellAt(1,8), CellAt(1,9), CellAt(2,7), CellAt(2,8), CellAt(2,9), CellAt(3,7), CellAt(3,8), CellAt(3,9) >>,
       << CellAt(4,1), CellAt(4,2), CellAt(4,3), CellAt(5,1), CellAt(5,2), CellAt(5,3), CellAt(6,1), CellAt(6,2), CellAt(6,3) >>,
       << CellAt(4,4), CellAt(4,5), CellAt(4,6), CellAt(5,4), CellAt(5,5), CellAt(5,6), CellAt(6,4), CellAt(6,5), CellAt(6,6) >>,
       << CellAt(4,7), CellAt(4,8), CellAt(4,9), CellAt(5,7), CellAt(5,8), CellAt(5,9), CellAt(6,7), CellAt(6,8), CellAt(6,9) >>,
       << CellAt(7,1), CellAt(7,2), CellAt(7,3), CellAt(8,1), CellAt(8,2), CellAt(8,3), CellAt(9,1), CellAt(9,2), CellAt(9,3) >>,
       << CellAt(7,4), CellAt(7,5), CellAt(7,6), CellAt(8,4), CellAt(8,5), CellAt(8,6), CellAt(9,4), CellAt(9,5), CellAt(9,6) >>,
       << CellAt(7,7), CellAt(7,8), CellAt(7,9), CellAt(8,7), CellAt(8,8), CellAt(8,9), CellAt(9,7), CellAt(9,8), CellAt(9,9) >> >>

\* self.__columns: column j, top to bottom
Columns ==
    << << CellAt(1,1), CellAt(1,4), CellAt(1,7), CellAt(4,1), CellAt(4,4), CellAt(4,7), CellAt(7,1), CellAt(7,4), CellAt(7,7) >>,
       << CellAt(1,2), CellAt(1,5), CellAt(1,8), CellAt(4,2), CellAt(4,5), CellAt(4,8), CellAt(7,2), CellAt(7,5), CellAt(7,8) >>,
       << CellAt(1,3), CellAt(1,6), CellAt(1,9), CellAt(4,3), CellAt(4,6), CellAt(4,9), CellAt(7,3), CellAt(7,6), CellAt(7,9) >>,
       << CellAt(2,1), CellAt(2,4), CellAt(2,7), CellAt(5,1), CellAt(5,4), CellAt(5,7), CellAt(8,1), CellAt(8,4), CellAt(8,7) >>,
       << CellAt(2,2), CellAt(2,5), CellAt(2,8), CellAt(5,2), CellAt(5,5), CellAt(5,8), CellAt(8,2), CellAt(8,5), CellAt(8,8) >>,
       << CellAt(2,3), CellAt(2,6), CellAt(2,9), CellAt(5,3), CellAt(5,6), CellAt(5,9), CellAt(8,3), CellAt(8,6), CellAt(8,9) >>,
       << CellAt(3,1), CellAt(3,4), CellAt(3,7), CellAt(6,1), CellAt(6,4), CellAt(6,7), CellAt(9,1), CellAt(9,4), CellAt(9,7) >>,
       << CellAt(3,2), CellAt(3,5), CellAt(3,8), CellAt(6,2), CellAt(6,5), CellAt(6,8), CellAt(9,2), CellAt(9,5), CellAt(9,8) >>,
       << CellAt(3,3), CellAt(3,6), CellAt(3,9), CellAt(6,3), CellAt(6,6), CellAt(6,9), CellAt(9,3), CellAt(9,6), CellAt(9,9) >> >>

Range(s) == {s[i] : i \in 1..Len(s)}

\* _Region.__getitem__: the k-th cell for 0 < index <= 9, None otherwise;
\* it never raises IndexError.
RegionGetItem(index) == IF 0 < index /\ index <= 9 THEN index ELSE NoneRef

\* "for cell in region": _Region has no __iter__, so the loop asks
\* __getitem__ for index 0, 1, 2, ... until IndexError.  Every loop body
\* dereferences its item at once, so the items matter up to the first None.
RECURSIVE RegionIterFrom(_)
RegionIterFrom(i) ==
    LET x == RegionGetItem(i)
    IN  IF x = IndexErr THEN << >>
        ELSE IF x = NoneRef THEN << NoneRef >>
        ELSE << x >> \o RegionIterFrom(i + 1)

\* the loop written over region.cells instead
RegionIterOverCells == [k \in 1..N |-> k]

\* the items "for cell in region" hands to its body (indices in the region)
RegionIter == RegionIterFrom(0)

\* the same items as cells of region r
RegionItems(r) ==
    [i \in 1..Len(RegionIter) |->
        IF RegionIter[i] = NoneRef THEN NoneRef ELSE CellAt(r, RegionIter[i])]

----------------------------------------------------------------------------
(* _Cell                                                                   *)

\* A board in the middle of a call: the cells, the exception raised so far
\* and the hidden-single resolutions made so far.
Board(v, c) == [value |-> v, cand |-> c, raised |-> "none", hits |-> {}]

\* _Cell.__init__ for all 81 cells
EmptyBoard == Board([c \in Cells |-> 0], [c \in Cells |-> Digits])

Raise(b, e) == IF b.raised = "none" THEN [b EXCEPT !.raised = e] ELSE b

\* the value setter that keeps the old candidate flags
SetValueKeepCands(b, c, v) ==
    IF b.raised # "none" THEN b
    ELSE IF ~(1 < v /\ v <= 9) THEN Raise(b, "ValueError")
    ELSE [b EXCEPT !.value[c] = v, !.cand[c] = @ \cup {v}]

\* _Cell.value setter
SetValue(b, c, v) ==
    IF b.raised # "none" THEN b
    ELSE IF ~(1 < v /\ v <= 9) THEN Raise(b, "ValueError")
    ELSE [b EXCEPT !.value[c] = v, !.cand[c] = {v}]

\* _Cell.is_solved over a list of cells: all(cell.is_solved() ...)
Solved(b, g) == \A i \in 1..Len(g) : b.value[g[i]] # 0

----------------------------------------------------------------------------
(* Board.update, pass by pass                                              *)

\* the innermost elimination statement without the "not cell2.value" test
ElimPairNoGuard(b, c1, c2) ==
    IF b.value[c1] \in b.cand[c2]
    THEN [b EXCEPT !.cand[c2] = @ \ {b.value[c1]}]
    ELSE b

\* "if not cell2.value and cell2[cell1.value]: cell2[cell1.value] = False"
\* (_Cell.__setitem__ stores the flag: cell1.value is within 1..9)
ElimPair(b, c1, c2) ==
    IF b.value[c2] = 0 /\ b.value[c1] \in b.cand[c2]
    THEN [b EXCEPT !.cand[c2] = @ \ {b.value[c1]}]
    ELSE b

\* "for cell2 in g"
RECURSIVE ElimInner(_, _, _, _)
ElimInner(b, g, c1, j) ==
    IF j > Len(g) \/ b.raised # "none" THEN b
    ELSE ElimInner(ElimPair(b, c1, g[j]), g, c1, j + 1)

\* "for cell1 in g: if cell1.value: ..."
RECURSIVE ElimOuter(_, _, _)
ElimOuter(b, g, i) ==
    IF i > Len(g) \/ b.raised # "none" THEN b
    ELSE IF b.value[g[i]] # 0 THEN ElimOuter(ElimInner(b, g, g[i], 1), g, i + 1)
    ELSE ElimOuter(b, g, i + 1)

\* "Remove candidates" for one region, row or column g, skipped when g is
\* solved
ElimGroup(b, g) == IF Solved(b, g) THEN b ELSE ElimOuter(b, g, 1)

RECURSIVE ElimGroups(_, _, _)
ElimGroups(b, gs, i) ==
    IF i > Len(gs) \/ b.raised # "none" THEN b
    ELSE ElimGroups(ElimGroup(b, gs[i]), gs, i + 1)

\* the three elimination blocks: regions, then rows, then columns
Eliminate(b) ==
    ElimGroups(ElimGroups(ElimGroups(b, Regions, 1), Rows, 1), Columns, 1)

\* cell.candidates: the open digits in ascending order; Min picks the first
MinOf(S) == CHOOSE x \in S : \A y \in S : x <= y

\* body of the "only 1 candidate" loop for one item
NakedCell(b, c) ==
    IF b.raised # "none" THEN b
    ELSE IF c = NoneRef THEN Raise(b, "AttributeError")
    ELSE IF b.value[c] = 0 /\ Cardinality(b.cand[c]) = 1
         THEN SetValue(b, c, MinOf(b.cand[c]))
         ELSE b

RECURSIVE NakedItems(_, _, _)
NakedItems(b, items, i) ==
    IF i > Len(items) \/ b.raised # "none" THEN b
    ELSE NakedItems(NakedCell(b, items[i]), items, i + 1)

\* "Set value if only 1 candidate": every region that is not solved
RECURSIVE NakedRegions(_, _)
NakedRegions(b, r) ==
    IF r > N \/ b.raised # "none" THEN b
    ELSE IF Solved(b, Regions[r]) THEN NakedRegions(b, r + 1)
    ELSE NakedRegions(NakedItems(b, RegionItems(r), 1), r + 1)

\* the inner "for cell2" loop: "yes" when it ends with singularity still
\* True, "no" when it breaks, "crash" when an item is None.  cell1 != cell2
\* is "not cell1.__eq__(cell2)": the two candidate tuples differ.
RECURSIVE IsSingle(_, _, _, _, _)
IsSingle(b, cell1, d, items, j) ==
    IF j > Len(items) THEN "yes"
    ELSE IF items[j] = NoneRef THEN "crash"
    ELSE IF /\ b.cand[cell1] # b.cand[items[j]]
            /\ b.value[items[j]] = 0
            /\ d \in b.cand[items[j]]
         THEN "no"
         ELSE IsSingle(b, cell1, d, items, j + 1)

\* whether, on board b, a cell of g other than cell1 (by position) holds d
\* or still has d open
Clash(b, cell1, d, g) ==
    \E p \in Range(g) \ {cell1} : b.value[p] = d \/ d \in b.cand[p]

\* one candidate of cell1: the singularity test and the assignment
HiddenCand(b, cell1, d, items, g) ==
    IF b.raised # "none" THEN b
    ELSE LET s == IsSingle(b, cell1, d, items, 1)
         IN  IF s = "crash" THEN Raise(b, "AttributeError")
             ELSE IF s = "no" THEN b
             ELSE LET b2 == SetValue(b, cell1, d)
                  IN  IF b2.raised # "none" THEN b2
                      ELSE [b2 EXCEPT !.hits = @ \cup
                              {[cell |-> cell1, digit |-> d, clash |-> Clash(b, cell1, d, g)]}]

\* "for candidate in cell1.candidates": the tuple is built once, before the
\* loop, so S is the candidate set of cell1 when the loop began
RECURSIVE HiddenCands(_, _, _, _, _, _)
HiddenCands(b, cell1, S, d, items, g) ==
    IF d > N \/ b.raised # "none" THEN b
    ELSE IF d \in S
         THEN HiddenCands(HiddenCand(b, cell1, d, items, g), cell1, S, d + 1, items, g)
         ELSE HiddenCands(b, cell1, S, d + 1, items, g)

\* body of the "for cell1" loop
HiddenCell(b, cell1, items, g) ==
    IF b.raised # "none" THEN b
    ELSE IF cell1 = NoneRef THEN Raise(b, "AttributeError")
    ELSE IF b.value[cell1] # 0 THEN b
    ELSE HiddenCands(b, cell1, b.cand[cell1], 1, items, g)

RECURSIVE HiddenItems(_, _, _, _)
HiddenItems(b, items, g, i) ==
    IF i > Len(items) \/ b.raised # "none" THEN b
    ELSE HiddenItems(HiddenCell(b, items[i], items, g), items, g, i + 1)

\* "Singularity in region"
RECURSIVE HiddenRegions(_, _)
HiddenRegions(b, r) ==
    IF r > N \/ b.raised # "none" THEN b
    ELSE IF Solved(b, Regions[r]) THEN HiddenRegions(b, r + 1)
    ELSE HiddenRegions(HiddenItems(b, RegionItems(r), Regions[r], 1), r + 1)

\* "Singularity in rows" and "Singularity in columns": gs is a list of
\* plain lists of cells
RECURSIVE HiddenLists(_, _, _)
HiddenLists(b, gs, i) ==
    IF i > Len(gs) \/ b.raised # "none" THEN b
    ELSE IF Solved(b, gs[i]) THEN HiddenLists(b, gs, i + 1)
    ELSE HiddenLists(HiddenItems(b, gs[i], gs[i], 1), gs, i + 1)

\* Board.update: the result of one call on board b
UpdateBoard(b) ==
    HiddenLists(
        HiddenLists(
            HiddenRegions(NakedRegions(Eliminate(b), 1), 1),
            Rows, 1),
        Columns, 1)

----------------------------------------------------------------------------
(* Board.parse                                                             *)

\* self[i][j]: Board.__getitem__ then _Region.__getitem__
BoardItem(i, j) ==
    IF ~(0 < i /\ i <= 9) \/ RegionGetItem(j) = NoneRef THEN NoneRef
    ELSE CellAt(i, RegionGetItem(j))

\* "for j, value in enumerate(row, start=1)": every non-zero digit of line i
\* is assigned to self[i][j]; an exception ends the call
RECURSIVE ParseLine(_, _, _, _)
ParseLine(b, g, i, j) ==
    IF j > Len(g[i]) \/ b.raised # "none" THEN b
    ELSE IF g[i][j] = 0 THEN ParseLine(b, g, i, j + 1)
    ELSE IF BoardItem(i, j) = NoneRef THEN Raise(b, "AttributeError")
    ELSE ParseLine(SetValue(b, BoardItem(i, j), g[i][j]), g, i, j + 1)

\* "for i, row in enumerate(sudoku_challenge, start=1)"
RECURSIVE ParseFrom(_, _, _)
ParseFrom(b, g, i) ==
    IF i > Len(g) \/ b.raised # "none" THEN b
    ELSE ParseFrom(ParseLine(b, g, i, 1), g, i + 1)

ParseBoard(b, g) == ParseFrom(b, g, 1)

----------------------------------------------------------------------------
(* The files that are loaded                                               *)

\* a file: nine lines of nine digits, 0 for a blank
NoClues == [i \in 1..N |-> [j \in 1..N |-> 0]]

\* the (line, position) pairs at which the enumerated files hold a clue
Sites == << <<1, 1>>, <<1, 5>>, <<2, 4>>, <<3, 7>> >>

SiteGrid(f) ==
    [i \in 1..N |-> [j \in 1..N |->
        IF \E s \in 1..Len(Sites) : Sites[s] = <<i, j>>
        THEN f[CHOOSE s \in 1..Len(Sites) : Sites[s] = <<i, j>>]
        ELSE 0]]

\* a file without a blank, and one whose first line only is without a blank
FullGrid == [i \in 1..N |-> [j \in 1..N |-> 2 + ((i + j) % 8)]]
OneLineGrid == [i \in 1..N |-> [j \in 1..N |-> IF i = 1 THEN 2 + (j % 8) ELSE 0]]

Grids ==
    {SiteGrid(f) : f \in [1..Len(Sites) -> 0..MaxDigit]} \cup {FullGrid, OneLineGrid}

\* the files with exactly one clue: every position, every digit of D
OneClue(D) ==
    {[i \in 1..N |-> [j \in 1..N |-> IF <<i, j>> = p THEN d ELSE 0]] :
        p \in (1..N) \X (1..N), d \in D}

OneClueGrids == OneClue(Digits)

\* the one-clue files whose digit the value setter takes
AcceptedDigits == {d \in Digits : SetValue(EmptyBoard, CellAt(1, 1), d).raised = "none"}
AcceptedClueGrids == OneClue(AcceptedDigits)

\* the files with at most one clue, at the first site
FirstSiteGrids ==
    {SiteGrid([s \in 1..Len(Sites) |-> IF s = 1 THEN d ELSE 0]) : d \in 0..MaxDigit}

\* the cells that are assigned to directly
AssignCells == {CellAt(1, 2), CellAt(5, 5)}

----------------------------------------------------------------------------
(* The calls                                                               *)

Cur == Board(value, cand)

Snapshot == [value |-> value, cand |-> cand]

Init ==
    /\ value = EmptyBoard.value
    /\ cand = EmptyBoard.cand
    /\ raised = "none"
    /\ op = "new"
    /\ grid = NoClues
    /\ log = << >>
    /\ fixed = FALSE
    /\ hits = {}
    /\ asg = [cell |-> NoneRef, v |-> 0]

\* Board.parse(file), on a board just constructed
Parse(g) ==
    /\ op = "new"
    /\ LET b == ParseBoard(Cur, g)
       IN  /\ value' = b.value
           /\ cand' = b.cand
           /\ raised' = b.raised
    /\ op' = "parse"
    /\ grid' = g
    /\ UNCHANGED <<log, fixed, hits, asg>>

\* Board.update()
Update ==
    /\ Len(log) < MaxLog
    /\ LET b == UpdateBoard(Cur)
       IN  /\ value' = b.value
           /\ cand' = b.cand
           /\ raised' = b.raised
           /\ hits' = b.hits
           /\ fixed' = (fixed \/ (b.value = value /\ b.cand = cand))
    /\ op' = "update"
    /\ log' = Append(log, Snapshot)
    /\ UNCHANGED <<grid, asg>>

\* an undo() that puts back the board the last pending update() started from
UndoRestores ==
    /\ IF log = << >>
       THEN UNCHANGED <<value, cand>>
       ELSE /\ value' = log[Len(log)].value
            /\ cand' = log[Len(log)].cand
    /\ raised' = "none"
    /\ op' = "undo"
    /\ log' = IF log = << >> THEN log ELSE SubSeq(log, 1, Len(log) - 1)
    /\ hits' = {}
    /\ UNCHANGED <<grid, fixed, asg>>

\* Board.undo(): "pass"
Undo ==
    /\ UNCHANGED <<value, cand>>
    /\ raised' = "none"
    /\ op' = "undo"
    /\ log' = IF log = << >> THEN log ELSE SubSeq(log, 1, Len(log) - 1)
    /\ hits' = {}
    /\ UNCHANGED <<grid, fixed, asg>>

\* board[r][k].value = v
Assign(c, v) ==
    /\ LET b == SetValue(Cur, c, v)
       IN  /\ value' = b.value
           /\ cand' = b.cand
           /\ raised' = b.raised
    /\ op' = "assign"
    /\ asg' = [cell |-> c, v |-> v]
    /\ UNCHANGED <<grid, log, fixed, hits>>

\* the elimination blocks of update() (lines 212-240) as a step of their own
ElimStep ==
    /\ op = "parse"
    /\ LET b == Eliminate(Cur)
       IN  /\ value' = b.value
           /\ cand' = b.cand
           /\ raised' = b.raised
    /\ op' = "elim"
    /\ UNCHANGED <<grid, log, fixed, hits, asg>>

\* the "Singularity in rows" block of update() (lines 265-278) as a step of
\* its own, on the board the elimination blocks leave
RowsStep ==
    /\ op = "elim"
    /\ LET b == HiddenLists(Cur, Rows, 1)
       IN  /\ value' = b.value
           /\ cand' = b.cand
           /\ raised' = b.raised
           /\ hits' = b.hits
    /\ op' = "rows"
    /\ UNCHANGED <<grid, log, fixed, asg>>

\* the "Singularity in columns" block of update() (lines 280-293), next
ColumnsStep ==
    /\ op = "rows"
    /\ raised = "none"
    /\ LET b == HiddenLists(Cur, Columns, 1)
       IN  /\ value' = b.value
           /\ cand' = b.cand
           /\ raised' = b.raised
           /\ hits' = b.hits
    /\ op' = "columns"
    /\ UNCHANGED <<grid, log, fixed, asg>>

----------------------------------------------------------------------------
(* Specifications                                                          *)

\* load one of the enumerated files, then update() and undo() in any order
Next ==
    \/ \E g \in Grids : Parse(g)
    \/ Update
    \/ Undo

Spec == Init /\ [][Next]_vars

\* the same with the one-clue files
NextOne ==
    \/ \E g \in OneClueGrids : Parse(g)
    \/ Update
    \/ Undo

SpecOne == Init /\ [][NextOne]_vars

\* loading a one-clue file that raises nothing
NextLoad ==
    \/ \E g \in AcceptedClueGrids : Parse(g)
    \/ Undo

SpecLoad == Init /\ [][NextLoad]_vars

\* direct assignments to two cells, before and after an update()
NextCell ==
    \/ \E g \in FirstSiteGrids : Parse(g)
    \/ (op = "parse" /\ Update)
    \/ \E c \in AssignCells, v \in (1 - Margin)..(N + Margin) : Assign(c, v)

SpecCell == Init /\ [][NextCell]_vars

\* the passes of update() that iterate plain lists, one block a step
NextSingles ==
    \/ \E g \in Grids : Parse(g)
    \/ ElimStep
    \/ RowsStep
    \/ ColumnsStep

SpecSingles == Init /\ [][NextSingles]_vars

----------------------------------------------------------------------------
(* Vocabulary of the properties                                            *)

AllGroups == Regions \o Rows \o Columns

\* the resolved values of v are pairwise distinct within every region, row
\* and column
Distinct(v) ==
    \A n \in 1..Len(AllGroups) : \A i, j \in 1..N :
        (i # j /\ v[AllGroups[n][i]] # 0) => v[AllGroups[n][i]] # v[AllGroups[n][j]]

\* two different cells that share a region, a row or a column
Peers(c, o) ==
    c # o /\ \E n \in 1..Len(AllGroups) : c \in Range(AllGroups[n]) /\ o \in Range(AllGroups[n])

\* the clues the loaded file put on the board
Clues == ParseBoard(EmptyBoard, grid).value

\* the clue positions of the loaded file
CluePositions == {p \in (1..N) \X (1..N) : grid[p[1]][p[2]] # 0}

Resolved == {c \in Cells : value[c] # 0}

----------------------------------------------------------------------------
(* Properties                                                              *)

\* C1: starting from loaded clues without a repeated digit in any region,
\* row or column, after any number of update() calls the resolved values of
\* every region, row and column are pairwise distinct.
C1_DistinctAfterUpdates ==
    (op \in {"update", "undo"} /\ Distinct(Clues)) => Distinct(value)

\* C1 witness: two updates on a board with valid clues, two of them in one
\* group
C1_Witness ==
    /\ op = "update"
    /\ Len(log) >= 2
    /\ Distinct(Clues)
    /\ \E c, o \in Resolved : Peers(c, o)

\* C2: undo() after an update() puts every cell back to the value and the
\* candidate set it had when that update() began.
C2_UndoRestoresBoard ==
    [][(op' = "undo" /\ log # << >>) =>
          (value' = log[Len(log)].value /\ cand' = log[Len(log)].cand)]_vars

C4_AssignContract ==
    [][op' = "assign" =>
          IF asg'.v \in 1..9
          THEN /\ raised' = "none"
               /\ value'[asg'.cell] = asg'.v
               /\ cand'[asg'.cell] = {asg'.v}
          ELSE /\ raised' # "none"
               /\ value'[asg'.cell] = value[asg'.cell]
               /\ cand'[asg'.cell] = cand[asg'.cell]]_vars

\* C5: every update() call runs its passes to the end and returns normally.
C5_UpdateReturnsNormally == op = "update" => raised = "none"

\* C6: on a board with exactly one clue, of digit d, one update() leaves the
\* clue resolved, removes d from the candidates of every other cell of the
\* clue's row, column and region, leaves all other cells at 1..9 and
\* resolves no other cell.
C6_OneClueElimination ==
    (op = "update" /\ Cardinality(CluePositions) = 1) =>
        LET p == CHOOSE q \in CluePositions : TRUE
            d == grid[p[1]][p[2]]
        IN  \E c \in Cells :
                /\ value[c] = d
                /\ \A o \in Cells \ {c} :
                      /\ value[o] = 0
                      /\ cand[o] = IF Peers(c, o) THEN Digits \ {d} ELSE Digits

\* C7: after parse, the cell at row i, column j is resolved to the digit at
\* position j of line i when that digit is not 0, and is unresolved with all
\* candidates open when it is 0.
C7_ParseLoadsRowsAndColumns ==
    op = "parse" =>
        \A i, j \in 1..N :
            IF grid[i][j] # 0
            THEN value[Rows[i][j]] = grid[i][j]
            ELSE value[Rows[i][j]] = 0 /\ cand[Rows[i][j]] = Digits

\* C8: every cell with a non-zero value v has the candidate set {v}.
C8_ResolvedHasSingleton ==
    \A c \in Cells : value[c] # 0 => cand[c] = {value[c]}

\* C8 witness: update() has met two resolved cells of one group and has
\* removed a value from an unresolved cell of that group
C8_Witness ==
    /\ op = "update"
    /\ \E c, o \in Resolved : Peers(c, o) /\ value[c] = value[o]
    /\ \E c \in Resolved, o \in Cells \ Resolved : Peers(c, o) /\ value[c] \notin cand[o]

C10_ResolvedCellsUntouched ==
    [][op' = "update" =>
          \A c \in Cells :
              value[c] # 0 => (value'[c] = value[c] /\ cand'[c] = cand[c])]_vars

\* C10 witness: an update() that changed the board while leaving a cell that
\* was resolved before it
C10_Witness ==
    /\ op = "update"
    /\ log # << >>
    /\ \E c \in Cells : log[Len(log)].value[c] # 0 /\ value[c] # 0
    /\ log[Len(log)].cand # cand

====
